---------------------------- MODULE Spec2Model ----------------------------
(***************************************************************************)
(* Model of app.py: a Flask application that loads a pickled regression    *)
(* model at import time and serves two routes, "/" (index) and             *)
(* "/predict" (predict_placement).  The handler predict_placement is       *)
(* modelled line by line (the program counter of a request is the source   *)
(* line it is about to execute), for several requests handled concurrently *)
(* by the threaded development server started by app.run.                  *)
(*                                                                         *)
(* Text (form values, response bodies) is a sequence of one-character      *)
(* strings.  A Python float is modelled as an exact decimal                *)
(* [m |-> mantissa, e |-> number of fraction digits], kept normalised      *)
(* (no trailing fraction zero), so that "170" and "170.0" denote the same  *)
(* value while their texts differ.                                         *)
(***************************************************************************)
EXTENDS Integers, Sequences, FiniteSets, TLC

\* ------------------------------------------------------------------ text

Digits == <<"0", "1", "2", "3", "4", "5", "6", "7", "8", "9">>

IsDigit(c) == \E i \in 1..10 : Digits[i] = c

DigitVal(c) == (CHOOSE i \in 1..10 : Digits[i] = c) - 1

\* request.form.get(name) of a field the form does not carry
None == <<"None">>

RECURSIVE Pow10(_)
Pow10(n) == IF n = 0 THEN 1 ELSE 10 * Pow10(n - 1)

RECURSIVE DigitsToNat(_)
DigitsToNat(s) ==
    IF s = <<>> THEN 0
    ELSE 10 * DigitsToNat(SubSeq(s, 1, Len(s) - 1)) + DigitVal(s[Len(s)])

RECURSIVE NatToDigits(_)
NatToDigits(n) ==
    IF n < 10 THEN <<Digits[n + 1]>>
    ELSE Append(NatToDigits(n \div 10), Digits[(n % 10) + 1])

RECURSIVE Zeros(_)
Zeros(n) == IF n = 0 THEN <<>> ELSE <<"0">> \o Zeros(n - 1)

\* ---------------------------------------------------------------- floats

RECURSIVE Norm(_)
Norm(d) ==
    IF d.e > 0 /\ d.m % 10 = 0
    THEN Norm([m |-> d.m \div 10, e |-> d.e - 1])
    ELSE d

Dec(m, e) == Norm([m |-> m, e |-> e])

Max(a, b) == IF a >= b THEN a ELSE b

FAdd(a, b) ==
    LET e == Max(a.e, b.e)
    IN  Dec(a.m * Pow10(e - a.e) + b.m * Pow10(e - b.e), e)

FScale(k, a) == Dec(k * a.m, a.e)

RECURSIVE LStrip(_)
LStrip(s) ==
    IF s # <<>> /\ s[1] = " " THEN LStrip(Tail(s)) ELSE s

RECURSIVE RStrip(_)
RStrip(s) ==
    IF s # <<>> /\ s[Len(s)] = " " THEN RStrip(SubSeq(s, 1, Len(s) - 1)) ELSE s

\* The unsigned part of a float literal: digits with at most one "." and at
\* least one digit.  Gives the decimal, or the fault float() raises.
ParseUnsigned(s, sign) ==
    LET dots == {i \in 1..Len(s) : s[i] = "."}
        cut  == IF dots = {} THEN Len(s) + 1 ELSE CHOOSE i \in dots : TRUE
        ip   == SubSeq(s, 1, cut - 1)
        fp   == SubSeq(s, cut + 1, Len(s))
        ok   == /\ Cardinality(dots) <= 1
                /\ \A i \in 1..Len(ip) : IsDigit(ip[i])
                /\ \A i \in 1..Len(fp) : IsDigit(fp[i])
                /\ Len(ip) + Len(fp) >= 1
    IN  IF ok
        THEN [ok |-> TRUE, val |-> Dec(sign * DigitsToNat(ip \o fp), Len(fp))]
        ELSE [ok |-> FALSE, fault |-> "ValueError"]

\* Faulty variant of float: the argument goes through str() first, so that
\* None is the text "None" and raises ValueError like any other non-number.
floatOfText(x) ==
    IF x = None THEN [ok |-> FALSE, fault |-> "ValueError"]
    ELSE LET s == RStrip(LStrip(x))
         IN  IF s # <<>> /\ s[1] = "-" THEN ParseUnsigned(Tail(s), -1)
             ELSE IF s # <<>> /\ s[1] = "+" THEN ParseUnsigned(Tail(s), 1)
             ELSE ParseUnsigned(s, 1)

\* float(x) for x the value of request.form.get: None raises TypeError, a
\* text that is no float literal raises ValueError; blanks around the
\* literal and one leading sign are accepted.
float(x) ==
    IF x = None THEN [ok |-> FALSE, fault |-> "TypeError"]
    ELSE LET s == RStrip(LStrip(x))
         IN  IF s # <<>> /\ s[1] = "-" THEN ParseUnsigned(Tail(s), -1)
             ELSE IF s # <<>> /\ s[1] = "+" THEN ParseUnsigned(Tail(s), 1)
             ELSE ParseUnsigned(s, 1)

\* str(x) of a float: sign, integer digits, ".", fraction digits (at least
\* one, "0" for a whole number).
str(d) ==
    LET a    == IF d.m < 0 THEN -d.m ELSE d.m
        ip   == a \div Pow10(d.e)
        fr   == a % Pow10(d.e)
        frd  == IF d.e = 0 THEN <<"0">>
                ELSE LET ds == NatToDigits(fr)
                     IN  Zeros(d.e - Len(ds)) \o ds
    IN  (IF d.m < 0 THEN <<"-">> ELSE <<>>) \o NatToDigits(ip) \o <<".">> \o frd


\* ------------------------------------------------------------ predictor

\* Bound: the number of requests the server receives in one run.
MaxRequests == 3

\* The worker threads of the development server (one per request in flight).
Threads == {"w1", "w2"}

\* The six form fields, in the order lines 15-20 read them.
Fields == <<"carlength", "carwidth", "carheight", "enginesize", "horsepower", "peakrpm">>

FieldSet == {Fields[i] : i \in 1..Len(Fields)}

\* The module-level name `model` before pickle.load has returned.
NoModel == [coef |-> <<>>, intercept |-> Dec(0, 0)]

\* What model_1.pkl may hold: a fitted regression over six features, each
\* with a coefficient of its own.
Artifacts ==
    { [coef |-> <<3, -2, 5, 7, 11, 1>>, intercept |-> Dec(-1005, 1)] }

RECURSIVE Dot(_, _, _)
Dot(coef, row, n) ==
    IF n = 0 THEN Dec(0, 0)
    ELSE FAdd(Dot(coef, row, n - 1), FScale(coef[n], row[n]))

\* model.predict(X) for a two-dimensional X: one scalar per row, or the fault
\* raised when a row has not the fitted number of features.
predict(m, X) ==
    IF \A i \in 1..Len(X) : Len(X[i]) = Len(m.coef) /\ Len(m.coef) > 0
    THEN [ok  |-> TRUE,
          val |-> [i \in 1..Len(X) |-> FAdd(m.intercept, Dot(m.coef, X[i], Len(m.coef)))]]
    ELSE [ok |-> FALSE, fault |-> "ValueError"]

\* ----------------------------------------------------------------- forms

abc == <<"a", "b", "c">>

Scenario ==
    [carlength  |-> <<"1", "7", "0">>,
     carwidth   |-> <<"6", "5">>,
     carheight  |-> <<"5", "5">>,
     enginesize |-> <<"1", "3", "0">>,
     horsepower |-> <<"1", "1", "0">>,
     peakrpm    |-> <<"5", "5", "0", "0">>]

\* The same six numbers, written differently.
Respelled ==
    [carlength  |-> <<"1", "7", "0", ".", "0">>,
     carwidth   |-> <<" ", "6", "5">>,
     carheight  |-> <<"+", "5", "5">>,
     enginesize |-> <<"1", "3", "0", ".">>,
     horsepower |-> <<"1", "1", "0", ".", "0", "0">>,
     peakrpm    |-> <<"5", "5", "0", "0", " ">>]

Fractional ==
    [carlength  |-> <<"4", ".", "5">>,
     carwidth   |-> <<"-", "2">>,
     carheight  |-> <<".", "5">>,
     enginesize |-> <<"0">>,
     horsepower |-> <<"1", "2", ".", "2", "5">>,
     peakrpm    |-> <<"8">>]

Omit(f, name) == [n \in (DOMAIN f) \ {name} |-> f[n]]

Garble(f, name, text) == [f EXCEPT ![name] = text]

WellFormed == {Scenario, Respelled, Fractional}

OneMissing == {Omit(Scenario, n) : n \in FieldSet}

OneGarbled == {Garble(Scenario, n, abc) : n \in FieldSet}

\* Two damaged fields next to each other, one missing and one garbled, in
\* both orders.
TwoDamaged ==
    UNION { { Garble(Omit(Scenario, Fields[i]), Fields[i + 1], abc),
              Omit(Garble(Scenario, Fields[i], abc), Fields[i + 1]) }
            : i \in {1, 3, 5} }

\* One garbled field and nothing else in the form.
OnlyGarbled == {[m \in {"carwidth"} |-> abc]}

\* No field is a number, each in its own way.
AllGarbled ==
    [carlength  |-> <<"1", "2", "a">>,
     carwidth   |-> abc,
     carheight  |-> <<>>,
     enginesize |-> <<"1", ".", "2", ".", "3">>,
     horsepower |-> <<"-">>,
     peakrpm    |-> <<"5", " ", "5">>]

Forms ==
    WellFormed \cup OneMissing \cup OneGarbled \cup TwoDamaged \cup OnlyGarbled
        \cup {AllGarbled}

\* Faulty variant of get: request.form.get(name, "0"), a default for a field
\* the form does not carry.
getOrZero(f, name) == IF name \in DOMAIN f THEN f[name] ELSE <<"0">>

\* request.form.get(name)
get(f, name) == IF name \in DOMAIN f THEN f[name] ELSE None


\* ----------------------------------------------------------------- state

VARIABLES
    main,      \* where the module body stands: "import" (line 6 not yet
               \* run), "loaded" (line 6 done), "serving" (app.run), "crashed"
    model,     \* the module-level name `model`
    loads,     \* how many times pickle.load has been called
    pc,        \* per worker: the source line it executes next, 0 when idle
    request,   \* per worker: the request it handles (or handled last); its
               \* field afterFault tells whether some worker's latest answer
               \* was a 500 when the request was accepted
    locals,    \* per worker: the local names of predict_placement
    response,  \* per worker: the response sent for `request`, once sent
    trace,     \* per worker: what the handler did for `request`, in order
    stdout,    \* what print has written
    received   \* how many requests the server has accepted

vars == <<main, model, loads, pc, request, locals, response, trace, stdout, received>>

NoForm == [n \in {} |-> abc]

NoLocals == [n \in {} |-> Dec(0, 0)]

NoRequest == [route |-> "", form |-> NoForm, afterFault |-> FALSE]

NoResponse == [status |-> 0, body |-> <<>>, fault |-> "none"]

\* The page Flask answers with when the view function raises: status 500,
\* naming the exception (debug = True).
ErrorPage(fault) == [status |-> 500, body |-> <<"Traceback", fault>>, fault |-> fault]

Ok(body) == [status |-> 200, body |-> body, fault |-> "none"]

Event(op, arg) == [op |-> op, arg |-> arg]

Init ==
    /\ main = "import"
    /\ model = NoModel
    /\ loads = 0
    /\ pc = [t \in Threads |-> 0]
    /\ request = [t \in Threads |-> NoRequest]
    /\ locals = [t \in Threads |-> NoLocals]
    /\ response = [t \in Threads |-> NoResponse]
    /\ trace = [t \in Threads |-> <<>>]
    /\ stdout = <<>>
    /\ received = 0

\* --------------------------------------------------------- module body

\* Line 6, pickle.load returns: the artifact becomes `model`.
LoadModel ==
    /\ main = "import"
    /\ \E a \in Artifacts : model' = a
    /\ loads' = loads + 1
    /\ main' = "loaded"
    /\ UNCHANGED <<pc, request, locals, response, trace, stdout, received>>

\* Line 6, open or pickle.load raises: the import fails, the process ends.
LoadFails ==
    /\ main = "import"
    /\ loads' = loads + 1
    /\ main' = "crashed"
    /\ UNCHANGED <<model, pc, request, locals, response, trace, stdout, received>>

\* Faulty variant of AppRun: the server starts whether or not line 6 has run.
AppRunEarly ==
    /\ main \in {"import", "loaded"}
    /\ main' = "serving"
    /\ UNCHANGED <<model, loads, pc, request, locals, response, trace, stdout, received>>

\* Lines 7-31: the routes are registered and app.run starts the server.
AppRun ==
    /\ main = "loaded"
    /\ main' = "serving"
    /\ UNCHANGED <<model, loads, pc, request, locals, response, trace, stdout, received>>

\* --------------------------------------------------------------- routes

FaultSeen == \E u \in Threads : response[u].status = 500

\* The server hands a request to an idle worker.
Accepts(t) ==
    /\ main = "serving"
    /\ pc[t] = 0
    /\ received < MaxRequests

\* Lines 9-11: GET / is answered with the index page.
index(t) ==
    /\ Accepts(t)
    /\ received' = received + 1
    /\ request' = [request EXCEPT ![t] =
                        [route |-> "/", form |-> NoForm, afterFault |-> FaultSeen]]
    /\ response' = [response EXCEPT ![t] = Ok(<<"index.html">>)]
    /\ trace' = [trace EXCEPT ![t] = <<Event("render_template", <<"index.html">>)>>]
    /\ UNCHANGED <<main, model, loads, pc, locals, stdout>>

\* Lines 13-14: POST /predict is dispatched to predict_placement.
Dispatch(t) ==
    /\ Accepts(t)
    /\ received' = received + 1
    /\ \E f \in Forms :
           request' = [request EXCEPT ![t] =
                           [route |-> "/predict", form |-> f, afterFault |-> FaultSeen]]
    /\ response' = [response EXCEPT ![t] = NoResponse]
    /\ trace' = [trace EXCEPT ![t] = <<>>]
    /\ locals' = [locals EXCEPT ![t] = NoLocals]
    /\ pc' = [pc EXCEPT ![t] = 15]
    /\ UNCHANGED <<main, model, loads, stdout>>

\* The line after `line` in predict_placement (blank lines skipped).
NextLine(line) == IF line < 20 THEN line + 1 ELSE line + 2

\* Faulty variant of Raise: the fault is also printed.
RaiseLogged(t, fault, done) ==
    /\ response' = [response EXCEPT ![t] = ErrorPage(fault)]
    /\ stdout' = Append(stdout, <<"Error:", fault>>)
    /\ trace' = [trace EXCEPT ![t] = done \o <<Event("raise", fault)>>]
    /\ locals' = [locals EXCEPT ![t] = NoLocals]
    /\ pc' = [pc EXCEPT ![t] = 0]

\* An exception leaves the view function: the frame is dropped and Flask
\* answers 500.  Nothing is printed.
Raise(t, fault, done) ==
    /\ response' = [response EXCEPT ![t] = ErrorPage(fault)]
    /\ stdout' = stdout
    /\ trace' = [trace EXCEPT ![t] = done \o <<Event("raise", fault)>>]
    /\ locals' = [locals EXCEPT ![t] = NoLocals]
    /\ pc' = [pc EXCEPT ![t] = 0]

\* Faulty variant of Assign: a field that does not parse counts as 0.0.
AssignLenient(t, line, name) ==
    /\ pc[t] = line
    /\ LET r == float(get(request[t].form, name))
           v == IF r.ok THEN r.val ELSE Dec(0, 0)
       IN  locals' = [locals EXCEPT ![t] = (name :> v) @@ @]
    /\ trace' = [trace EXCEPT ![t] = Append(@, Event("float", name))]
    /\ pc' = [pc EXCEPT ![t] = NextLine(line)]
    /\ UNCHANGED <<main, model, loads, request, response, stdout, received>>

\* Faulty variant of Assign: the names are module-level globals, one set for
\* all workers, instead of locals of the call.
AssignGlobal(t, line, name) ==
    /\ pc[t] = line
    /\ LET r    == float(get(request[t].form, name))
           done == Append(trace[t], Event("float", name))
       IN  IF r.ok
           THEN /\ locals' = [u \in Threads |-> (name :> r.val) @@ locals[u]]
                /\ trace' = [trace EXCEPT ![t] = done]
                /\ pc' = [pc EXCEPT ![t] = NextLine(line)]
                /\ UNCHANGED <<response, stdout>>
           ELSE Raise(t, r.fault, done)
    /\ UNCHANGED <<main, model, loads, request, received>>

\* One of lines 15-20: name = float(request.form.get(name)).
Assign(t, line, name) ==
    /\ pc[t] = line
    /\ LET r    == float(get(request[t].form, name))
           done == Append(trace[t], Event("float", name))
       IN  IF r.ok
           THEN /\ locals' = [locals EXCEPT ![t] = (name :> r.val) @@ @]
                /\ trace' = [trace EXCEPT ![t] = done]
                /\ pc' = [pc EXCEPT ![t] = NextLine(line)]
                /\ UNCHANGED <<response, stdout>>
           ELSE Raise(t, r.fault, done)
    /\ UNCHANGED <<main, model, loads, request, received>>

carlength(t) == Assign(t, 15, "carlength")

carwidth(t) == Assign(t, 16, "carwidth")

carheight(t) == Assign(t, 17, "carheight")

enginesize(t) == Assign(t, 18, "enginesize")

horsepower(t) == Assign(t, 19, "horsepower")

peakrpm(t) == Assign(t, 20, "peakrpm")

\* The list of line 22.
InputData(l) ==
    <<l["carlength"], l["carwidth"], l["carheight"],
      l["enginesize"], l["horsepower"], l["peakrpm"]>>

\* Faulty variant of Features: the first two features exchanged.
FeaturesSwapped(l) ==
    << <<l["carwidth"], l["carlength"], l["carheight"],
         l["enginesize"], l["horsepower"], l["peakrpm"]>> >>

\* The array of line 24: np.array([...]).reshape(1, 6), one row of six.
Features(l) ==
    << <<l["carlength"], l["carwidth"], l["carheight"],
         l["enginesize"], l["horsepower"], l["peakrpm"]>> >>

\* Faulty variant of PrintInput: line 22 writes nothing.
PrintInputSilent(t) ==
    /\ pc[t] = 22
    /\ pc' = [pc EXCEPT ![t] = 24]
    /\ UNCHANGED <<main, model, loads, request, locals, response, trace, stdout, received>>

\* Line 22: print("Input Data:", [...]).
PrintInput(t) ==
    /\ pc[t] = 22
    /\ LET line == <<"Input Data:", InputData(locals[t])>>
       IN  /\ stdout' = Append(stdout, line)
           /\ trace' = [trace EXCEPT ![t] = Append(@, Event("print", line))]
    /\ pc' = [pc EXCEPT ![t] = 24]
    /\ UNCHANGED <<main, model, loads, request, locals, response, received>>

\* Faulty variant of Predict: the call also refits the predictor (its
\* intercept moves by one).
PredictRefit(t) ==
    /\ pc[t] = 24
    /\ LET X == Features(locals[t])
           r == predict(model, X)
       IN  /\ r.ok
           /\ locals' = [locals EXCEPT ![t] = ("result" :> r.val) @@ @]
           /\ trace' = [trace EXCEPT ![t] = Append(@, Event("predict", X))]
    /\ model' = [model EXCEPT !.intercept = FAdd(@, Dec(1, 0))]
    /\ pc' = [pc EXCEPT ![t] = 26]
    /\ UNCHANGED <<main, loads, request, response, stdout, received>>

\* Line 24: result = model.predict(...).
Predict(t) ==
    /\ pc[t] = 24
    /\ LET X    == Features(locals[t])
           r    == predict(model, X)
           done == Append(trace[t], Event("predict", X))
       IN  IF r.ok
           THEN /\ locals' = [locals EXCEPT ![t] = ("result" :> r.val) @@ @]
                /\ trace' = [trace EXCEPT ![t] = done]
                /\ pc' = [pc EXCEPT ![t] = 26]
                /\ UNCHANGED <<response, stdout>>
           ELSE Raise(t, r.fault, done)
    /\ UNCHANGED <<main, request, received>>
    /\ UNCHANGED <<model, loads>>

\* Line 26: print("Prediction:", result).
PrintResult(t) ==
    /\ pc[t] = 26
    /\ LET line == <<"Prediction:", locals[t]["result"]>>
       IN  /\ stdout' = Append(stdout, line)
           /\ trace' = [trace EXCEPT ![t] = Append(@, Event("print", line))]
    /\ pc' = [pc EXCEPT ![t] = 28]
    /\ UNCHANGED <<main, model, loads, request, locals, response, received>>

\* Faulty variant of Rendered: str(int(result[0])), the fraction cut off.
RenderedRounded(l) ==
    LET d == l["result"][1]
        a == IF d.m < 0 THEN -d.m ELSE d.m
    IN  (IF d.m < 0 THEN <<"-">> ELSE <<>>) \o NatToDigits(a \div Pow10(d.e))

\* The value of line 28: str(result[0]) (Python indexes from 0, sequences
\* here from 1).
Rendered(l) == str(l["result"][1])

\* Line 28: return str(result[0]); the frame is dropped, Flask answers 200.
Return(t) ==
    /\ pc[t] = 28
    /\ LET body == Rendered(locals[t])
       IN  /\ response' = [response EXCEPT ![t] = Ok(body)]
           /\ trace' = [trace EXCEPT ![t] = Append(@, Event("return", body))]
    /\ locals' = [locals EXCEPT ![t] = NoLocals]
    /\ pc' = [pc EXCEPT ![t] = 0]
    /\ UNCHANGED <<main, model, loads, request, stdout, received>>

predict_placement(t) ==
    \/ carlength(t)
    \/ carwidth(t)
    \/ carheight(t)
    \/ enginesize(t)
    \/ horsepower(t)
    \/ peakrpm(t)
    \/ PrintInput(t)
    \/ Predict(t)
    \/ PrintResult(t)
    \/ Return(t)

Next ==
    \/ LoadModel
    \/ LoadFails
    \/ AppRun
    \/ \E t \in Threads : index(t)
    \/ \E t \in Threads : Dispatch(t)
    \/ \E t \in Threads : predict_placement(t)

Spec == Init /\ [][Next]_vars


\* ------------------------------------------------- vocabulary of the claims

\* The number each well-formed text of Forms denotes, written out.
Reading(text) ==
    CASE text = <<"1", "7", "0">>                -> [m |-> 170, e |-> 0]
      [] text = <<"1", "7", "0", ".", "0">>      -> [m |-> 170, e |-> 0]
      [] text = <<"6", "5">>                     -> [m |-> 65, e |-> 0]
      [] text = <<" ", "6", "5">>                -> [m |-> 65, e |-> 0]
      [] text = <<"5", "5">>                     -> [m |-> 55, e |-> 0]
      [] text = <<"+", "5", "5">>                -> [m |-> 55, e |-> 0]
      [] text = <<"1", "3", "0">>                -> [m |-> 130, e |-> 0]
      [] text = <<"1", "3", "0", ".">>           -> [m |-> 130, e |-> 0]
      [] text = <<"1", "1", "0">>                -> [m |-> 110, e |-> 0]
      [] text = <<"1", "1", "0", ".", "0", "0">> -> [m |-> 110, e |-> 0]
      [] text = <<"5", "5", "0", "0">>           -> [m |-> 5500, e |-> 0]
      [] text = <<"5", "5", "0", "0", " ">>      -> [m |-> 5500, e |-> 0]
      [] text = <<"4", ".", "5">>                -> [m |-> 45, e |-> 1]
      [] text = <<"-", "2">>                     -> [m |-> -2, e |-> 0]
      [] text = <<".", "5">>                     -> [m |-> 5, e |-> 1]
      [] text = <<"0">>                          -> [m |-> 0, e |-> 0]
      [] text = <<"1", "2", ".", "2", "5">>      -> [m |-> 1225, e |-> 2]
      [] text = <<"8">>                          -> [m |-> 8, e |-> 0]

\* The texts of Forms that are no float literal.
NotNumbers ==
    {abc, <<"1", "2", "a">>, <<>>, <<"1", ".", "2", ".", "3">>, <<"-">>, <<"5", " ", "5">>}

Missing(f, n) == n \notin DOMAIN f

Garbled(f, n) == n \in DOMAIN f /\ f[n] \in NotNumbers

Damaged(f, n) == Missing(f, n) \/ Garbled(f, n)

\* All six fields are present and numeric.
Sound(f) == \A n \in FieldSet : ~Damaged(f, n)

\* The position of the first field, in the order of Fields, that is damaged.
FirstDamaged(f) ==
    CHOOSE i \in 1..Len(Fields) :
        /\ Damaged(f, Fields[i])
        /\ \A j \in 1..(i - 1) : ~Damaged(f, Fields[j])

\* The vector a sound form denotes: position i holds the value of field i.
Vector(f) ==
    <<Reading(f["carlength"]), Reading(f["carwidth"]), Reading(f["carheight"]),
      Reading(f["enginesize"]), Reading(f["horsepower"]), Reading(f["peakrpm"])>>

\* What the loaded predictor returns for the vector of a sound form.
Prediction(f) == predict(model, <<Vector(f)>>).val[1]

\* Worker t has answered a POST to /predict.
Answered(t) == request[t].route = "/predict" /\ response[t].status # 0

Ops(t) == [i \in 1..Len(trace[t]) |-> trace[t][i].op]

Calls(t) == SelectSeq(trace[t], LAMBDA e : e.op = "predict")

Prints(t) == SelectSeq(trace[t], LAMBDA e : e.op = "print")


\* ---------------------------------------------------------------- claims

\* C1: a POST to /predict whose six fields all parse as numbers makes the
\* handler call the predictor exactly once, with the vector [carlength,
\* carwidth, carheight, enginesize, horsepower, peakrpm] in that order, and
\* the response body is the text of the scalar that call returned.  For the
\* form {170, 65, 55, 130, 110, 5500} the vector is [170,65,55,130,110,5500].
C1_VectorInFieldOrder ==
    \A t \in Threads :
        Answered(t) /\ Sound(request[t].form) =>
            /\ Len(Calls(t)) = 1
            /\ Calls(t)[1].arg = <<Vector(request[t].form)>>
            /\ request[t].form = Scenario =>
                   Calls(t)[1].arg =
                       << <<[m |-> 170, e |-> 0], [m |-> 65, e |-> 0], [m |-> 55, e |-> 0],
                            [m |-> 130, e |-> 0], [m |-> 110, e |-> 0],
                            [m |-> 5500, e |-> 0]>> >>
            /\ response[t].body = str(predict(model, Calls(t)[1].arg).val[1])

C1_Witness ==
    \E t \in Threads :
        Answered(t) /\ request[t].form = Scenario /\ response[t].status = 200

\* C2: a POST that omits one field, the other five numeric, is answered with
\* a failure and never with a prediction computed from a default; the
\* process stays usable: after a failure the server still serves with the
\* predictor intact, and a well-formed request accepted after a failure
\* gets its normal prediction.
C2_MissingFieldFails ==
    /\ \A t \in Threads :
           /\ Answered(t)
           /\ \E n \in FieldSet :
                  /\ Missing(request[t].form, n)
                  /\ \A o \in FieldSet \ {n} : ~Damaged(request[t].form, o)
           => /\ response[t].status = 500
              /\ Calls(t) = <<>>
    /\ FaultSeen => main = "serving" /\ model \in Artifacts
    /\ \A t \in Threads :
           Answered(t) /\ request[t].afterFault /\ Sound(request[t].form) =>
               response[t] = Ok(str(Prediction(request[t].form)))

C2_Witness ==
    \E t, u \in Threads :
        /\ t # u
        /\ received = 2
        /\ Answered(u)
        /\ request[u].form = Omit(Scenario, "horsepower")
        /\ response[u].status = 500
        /\ Answered(t)
        /\ request[t].afterFault
        /\ Sound(request[t].form)
        /\ response[t].status = 200

\* C3: a POST in which some field is present but is no number ("abc") is
\* answered with an error, whatever the other five fields are.
C3_GarbledFieldFails ==
    \A t \in Threads :
        Answered(t) /\ (\E n \in FieldSet : Garbled(request[t].form, n)) =>
            response[t].status = 500

C3_Witness ==
    \E t, u \in Threads :
        /\ t # u
        /\ Answered(t)
        /\ request[t].form = Garble(Scenario, "carwidth", abc)
        /\ response[t].status = 500
        /\ Answered(u)
        /\ request[u].form = AllGarbled
        /\ response[u].status = 500

\* C4: with the predictor loaded, two POSTs carrying the same six field
\* values get the same response, whatever was served before or between.
C4_SameFieldsSameBody ==
    \A t, u \in Threads :
        Answered(t) /\ Answered(u) /\ request[t].form = request[u].form =>
            /\ response[t].status = response[u].status
            /\ response[t].body = response[u].body

\* The same sound form answered twice, a failed request having been served
\* after the first was accepted and before the second was.
C4_Witness ==
    \E t, u \in Threads :
        /\ t # u
        /\ Answered(t)
        /\ Answered(u)
        /\ request[t].form = request[u].form
        /\ Sound(request[t].form)
        /\ ~request[t].afterFault
        /\ request[u].afterFault

\* C5: the predictor is loaded once, at start, before any request is
\* served: no request is accepted or handled unless the load has completed,
\* and after a failed load no request is ever served.
C5_LoadedOnceBeforeServing ==
    /\ loads <= 1
    /\ main = "serving" => loads = 1 /\ model \in Artifacts
    /\ \/ received > 0
       \/ \E t \in Threads : pc[t] # 0 \/ request[t] # NoRequest \/ response[t] # NoResponse
       => main = "serving" /\ model \in Artifacts
    /\ main = "crashed" => model = NoModel /\ received = 0

C5_Witness ==
    /\ main = "serving"
    /\ received = MaxRequests
    /\ \A t \in Threads : response[t].status # 0

\* C6: a POST whose six fields are present and numeric is answered 200 with
\* a body that parses as a number, and that number is the predictor's
\* scalar, not rounded and with nothing added.
C6_BodyIsTheScalar ==
    \A t \in Threads :
        Answered(t) /\ Sound(request[t].form) =>
            /\ response[t].status = 200
            /\ float(response[t].body).ok
            /\ float(response[t].body).val = Prediction(request[t].form)

C6_Witness ==
    \E t \in Threads :
        /\ Answered(t)
        /\ request[t].form = Fractional
        /\ response[t].status = 200
        /\ float(response[t].body).val.e > 0

\* C7: requests share no mutable state: under every interleaving each worker
\* holds its own request's values, its result and its response are the
\* predictor applied to those values, and the predictor never changes once
\* loaded.
C7_NoSharedMutableState ==
    /\ [](\A t \in Threads :
             /\ \A n \in FieldSet \cap DOMAIN locals[t] :
                    /\ ~Damaged(request[t].form, n)
                    /\ locals[t][n] = Reading(request[t].form[n])
             /\ "result" \in DOMAIN locals[t] =>
                    /\ Sound(request[t].form)
                    /\ locals[t]["result"] = <<Prediction(request[t].form)>>
             /\ Answered(t) /\ response[t].status = 200 =>
                    response[t].body = str(Prediction(request[t].form)))
    /\ [][(model \in Artifacts) => (model' = model)]_vars

\* Two requests with different values, both between predict and return.
C7_Witness ==
    \E t, u \in Threads :
        /\ pc[t] = 28
        /\ pc[u] = 28
        /\ locals[t]["result"] # locals[u]["result"]

C9_TwoLogEntriesInOrder ==
    /\ [](\A t \in Threads :
             Answered(t) /\ response[t].status = 200 =>
                 /\ Ops(t) = <<"float", "float", "float", "float", "float", "float",
                               "print", "predict", "print", "return">>
                 /\ trace[t][7].arg = <<"Input Data:", Vector(request[t].form)>>
                 /\ trace[t][9].arg = <<"Prediction:", <<Prediction(request[t].form)>> >>
                 /\ \E i, j \in 1..Len(stdout) :
                        /\ i < j
                        /\ stdout[i] = trace[t][7].arg
                        /\ stdout[j] = trace[t][9].arg)
    /\ [][stdout' # stdout =>
              \E t \in Threads :
                  /\ pc[t] \in {22, 26}
                  /\ pc'[t] # pc[t]
                  /\ trace'[t][Len(trace'[t])].op = "print"
                  /\ stdout' = Append(stdout, trace'[t][Len(trace'[t])].arg)]_vars

C9_Witness ==
    \E t \in Threads :
        /\ Answered(t)
        /\ request[t].form = Respelled
        /\ response[t].status = 200
        /\ Len(stdout) = 2

\* C10: the six fields are parsed in field order before anything else, and a
\* request that fails on parsing has no other effect: parsing stops at the
\* first missing or non-numeric field, the predictor is not called and
\* nothing is written to the log.
C10_ParseFailureHasNoOtherEffect ==
    /\ [](\A t \in Threads :
             /\ \A i \in 1..Len(trace[t]) :
                    request[t].route = "/predict" /\ i <= Len(Fields) =>
                        \/ trace[t][i].op = "float" /\ trace[t][i].arg = Fields[i]
                        \/ trace[t][i].op = "raise" /\ i = Len(trace[t])
             /\ Answered(t) /\ ~Sound(request[t].form) =>
                    LET k == FirstDamaged(request[t].form)
                    IN  /\ Ops(t) = [i \in 1..(k + 1) |-> IF i <= k THEN "float" ELSE "raise"]
                        /\ Prints(t) = <<>>
                        /\ Calls(t) = <<>>)
    /\ [][\A t \in Threads :
              pc[t] \in 15..20 /\ pc'[t] # pc[t] =>
                  stdout' = stdout /\ model' = model]_vars

C10_Witness ==
    \E t \in Threads :
        /\ Answered(t)
        /\ request[t].form = Garble(Omit(Scenario, "carheight"), "enginesize", abc)
        /\ Len(trace[t]) = 4
        /\ stdout # <<>>

=============================================================================
